---- MODULE Spec2Model ----
(***************************************************************************)
(* Model of examples/c/profile.c: the user-space side of the per-CPU       *)
(* sampling profiler.  main() parses the command line, sets up one perf    *)
(* counter and one BPF attachment per online CPU, drains the ring buffer   *)
(* through event_handler() and tears everything down at the cleanup label. *)
(* The kernel, libbpf and blazesym are the environment: their results are  *)
(* nondeterministic choices over the outcomes their interfaces allow.      *)
(***************************************************************************)
EXTENDS Integers, Sequences, FiniteSets, TLC

(* ------------------------------ bounds -------------------------------- *)
\* largest CPU-mask size and largest possible-CPU count explored
MaxCpus == 3
\* largest number of frames in one captured stack
MaxStack == 3

(* ------------------------- program constants -------------------------- *)
ENOENT == 2
\* sizeof(__u64), the divisor of kstack_sz / ustack_sz
SizeofU64 == 8
\* width of a process exit status
ExitMod == 256

NULL == "NULL"
NoSeq == << >>

VARIABLES
    pc,              \* position of main()
    freq,            \* int freq
    sw_event,        \* int sw_event
    optarg,          \* getopt's optarg (NULL when the option has none)
    err,             \* int err
    errno,           \* errno left by the last failing perf_event_open
    online_mask,     \* bool *online_mask (NoSeq = NULL), cpu c is element c+1
    num_online_cpus, \* int num_online_cpus: the size of online_mask
    num_cpus,        \* int num_cpus
    skel,            \* struct profile_bpf *skel: "null" | "loaded" | "destroyed"
    symbolizer,      \* static blaze_symbolizer *: "null" | "alive" | "freed"
    ring_buf,        \* struct ring_buffer *: "null" | "alive" | "freed"
    pefds,           \* int *pefds (NoSeq = NULL), entry c+1 is pefds[c]
    links,           \* struct bpf_link **links (NoSeq = NULL), 0 = NULL link
    attr,            \* struct perf_event_attr attr
    cpu,             \* loop variable of the set-up loop
    counters,        \* kernel side: the open perf counters, [fd, cpu, attr]
    attachments,     \* kernel side: the live BPF links, [id, fd, cpu]
    next_fd,         \* next file descriptor / link id the kernel hands out
    diag,            \* last diagnostic main() wrote to stderr
    failed,          \* the set-up stage that took "goto cleanup" ("none" if none)
    exit_status,     \* status returned by main(), -1 while running
    rec,             \* the Event Record last passed to event_handler
    answers,         \* what the Symbolizer had to say about its two stacks
    out,             \* what event_handler printed for that record
    symlog,          \* the Symbolizer calls/releases made for that record
    ret,             \* event_handler's return value for that record
    handled,         \* whether event_handler has run at all
    loop_end,        \* why the consumer loop ended: "none" | "poll_error" | "handler"
    call,            \* the show_stack_trace call exercised on its own
    ring,            \* the shared channel: the accepted records, oldest first
    stamp,           \* how many records the capture program has produced
    last             \* production stamp of the record handled last (0 = none)

vars == << pc, freq, sw_event, optarg, err, errno, online_mask, num_online_cpus,
           num_cpus, skel, symbolizer, ring_buf, pefds, links, attr, cpu,
           counters, attachments, next_fd, diag, failed, exit_status,
           rec, answers, out, symlog, ret, handled, loop_end, call,
           ring, stamp, last >>

cfgVars == << freq, sw_event, optarg >>
cpuVars == << online_mask, num_online_cpus, num_cpus >>
objVars == << skel, symbolizer, ring_buf >>
tabVars == << pefds, links, attr, cpu >>
kernVars == << counters, attachments, next_fd >>
handlerVars == << rec, answers, out, symlog, ret, handled, loop_end, call >>
chanVars == << ring, stamp, last >>

(* ---------------------- command line (164-180) ----------------------- *)
\* optarg when the option just returned takes no argument
NullArg == << NULL >>

\* the -f arguments tried: positive, multi-digit, zero, negative, signed,
\* padded, trailing garbage, not a number, empty
FreqArgs ==
    { <<"1", "2">>, <<"0">>, <<"-", "3">>, <<"+", "1", "2">>,
      <<" ", "1", "2">>, <<"1", "2", "x">>, <<"x">>, << >> }

DigitVal(c) ==
    CASE c = "0" -> 0 [] c = "1" -> 1 [] c = "2" -> 2 [] c = "3" -> 3
      [] c = "4" -> 4 [] c = "5" -> 5 [] c = "6" -> 6 [] c = "7" -> 7
      [] c = "8" -> 8 [] c = "9" -> 9 [] OTHER -> -1

IsDigit(c) == DigitVal(c) >= 0

\* the digits-prefix of s, accumulated left to right from acc
RECURSIVE atoi_digits(_, _)
atoi_digits(s, acc) ==
    IF s = << >> \/ ~IsDigit(Head(s)) THEN acc
    ELSE atoi_digits(Tail(s), 10 * acc + DigitVal(Head(s)))

RECURSIVE atoi_skip(_)
atoi_skip(s) ==
    IF s # << >> /\ Head(s) = " " THEN atoi_skip(Tail(s)) ELSE s

\* atoi(3): skip white space, take an optional sign, convert the digits that
\* follow and stop at the first character that is no digit
atoi(s) ==
    LET t == atoi_skip(s)
    IN  IF t = << >> THEN 0
        ELSE IF Head(t) = "-" THEN 0 - atoi_digits(Tail(t), 0)
        ELSE IF Head(t) = "+" THEN atoi_digits(Tail(t), 0)
        ELSE atoi_digits(t, 0)

MutClampFreq(f) == IF f < 0 THEN 1 ELSE f

\* lines 168-169: if (freq < 1) freq = 1;
ClampFreq(f) == IF f < 1 THEN 1 ELSE f

\* case 'f'
GetoptF ==
    /\ pc = "getopt"
    /\ \E a \in FreqArgs :
          /\ optarg' = a
          /\ freq' = ClampFreq(atoi(a))
    /\ UNCHANGED << pc, sw_event, err, errno, diag, failed, exit_status,
                    cpuVars, objVars, tabVars, kernVars, handlerVars, chanVars >>

\* case 's' (--sw-event)
GetoptS ==
    /\ pc = "getopt"
    /\ optarg' = NullArg
    /\ sw_event' = 1
    /\ UNCHANGED << pc, freq, err, errno, diag, failed, exit_status,
                    cpuVars, objVars, tabVars, kernVars, handlerVars, chanVars >>

\* case 'h' and default (unknown option, -f without argument):
\* show_help(); return 1;
GetoptHelp ==
    /\ pc = "getopt"
    /\ optarg' = NullArg
    /\ pc' = "done"
    /\ exit_status' = 1
    /\ UNCHANGED << freq, sw_event, err, errno, diag, failed,
                    cpuVars, objVars, tabVars, kernVars, handlerVars, chanVars >>

\* getopt_long returns -1: the options are exhausted
GetoptEnd ==
    /\ pc = "getopt"
    /\ optarg' = NullArg
    /\ pc' = "parse_cpu_mask"
    /\ UNCHANGED << freq, sw_event, err, errno, diag, failed, exit_status,
                    cpuVars, objVars, tabVars, kernVars, handlerVars, chanVars >>

(* ------------------------- set-up (182-256) --------------------------- *)
\* the masks parse_cpu_mask_file can return: not empty, and as long as the
\* highest CPU listed in the file, so the last element is set
OnlineMasks ==
    UNION { { m \in [1..n -> BOOLEAN] : m[n] } : n \in 1..MaxCpus }

PopCount(m) == Cardinality({ i \in DOMAIN m : m[i] })

\* the negative error codes parse_cpu_mask_file / libbpf_num_possible_cpus return
LibbpfErrs == { -2, -22 }

\* the errno values of a failing perf_event_open
PerfErrnos == { ENOENT, 13 }

MutGotoCleanup(stage, e, d) ==
    /\ err' = err
    /\ failed' = stage
    /\ diag' = d
    /\ pc' = "cleanup_links"

\* "goto cleanup" from a set-up stage, err and the diagnostic already chosen
GotoCleanup(stage, e, d) ==
    /\ err' = e
    /\ failed' = stage
    /\ diag' = d
    /\ pc' = "cleanup_links"

\* lines 182-186, success
ParseCpuMaskOk ==
    /\ pc = "parse_cpu_mask"
    /\ \E m \in OnlineMasks :
          /\ online_mask' = m
          /\ num_online_cpus' = Len(m)
    /\ err' = 0
    /\ pc' = "num_possible_cpus"
    /\ UNCHANGED << cfgVars, errno, diag, failed, exit_status, num_cpus,
                    objVars, tabVars, kernVars, handlerVars, chanVars >>

\* lines 182-186, failure: err is the library's negative code
ParseCpuMaskFail ==
    /\ pc = "parse_cpu_mask"
    /\ \E e \in LibbpfErrs : GotoCleanup("cpu_mask", e, "Fail to get online CPU numbers")
    /\ UNCHANGED << cfgVars, errno, exit_status, cpuVars, objVars, tabVars,
                    kernVars, handlerVars, chanVars >>

\* the fewest CPUs that can be possible: every online CPU, and the boot CPU 0
MinPossible(m) == PopCount(m) + (IF m[1] THEN 0 ELSE 1)

\* lines 188-193, success: libbpf_num_possible_cpus counts the possible CPUs,
\* which need not be numbered 0..n-1
NumPossibleCpusOk ==
    /\ pc = "num_possible_cpus"
    /\ \E n \in MinPossible(online_mask)..MaxCpus : num_cpus' = n
    /\ pc' = "open_and_load"
    /\ UNCHANGED << cfgVars, err, errno, diag, failed, exit_status, online_mask,
                    num_online_cpus, objVars, tabVars, kernVars, handlerVars, chanVars >>

\* lines 188-193, failure: num_cpus <= 0
NumPossibleCpusFail ==
    /\ pc = "num_possible_cpus"
    /\ \E n \in LibbpfErrs : num_cpus' = n
    /\ GotoCleanup("num_cpus", -1, "Fail to get the number of processors")
    /\ UNCHANGED << cfgVars, errno, exit_status, online_mask, num_online_cpus,
                    objVars, tabVars, kernVars, handlerVars, chanVars >>

\* lines 195-200
OpenAndLoadOk ==
    /\ pc = "open_and_load"
    /\ skel' = "loaded"
    /\ pc' = "symbolizer_new"
    /\ UNCHANGED << cfgVars, err, errno, diag, failed, exit_status, cpuVars,
                    symbolizer, ring_buf, tabVars, kernVars, handlerVars, chanVars >>

OpenAndLoadFail ==
    /\ pc = "open_and_load"
    /\ GotoCleanup("skel", -1, "Fail to open and load BPF skeleton")
    /\ UNCHANGED << cfgVars, errno, exit_status, cpuVars, objVars, tabVars,
                    kernVars, handlerVars, chanVars >>

\* lines 202-207
SymbolizerNewOk ==
    /\ pc = "symbolizer_new"
    /\ symbolizer' = "alive"
    /\ pc' = "ring_buffer_new"
    /\ UNCHANGED << cfgVars, err, errno, diag, failed, exit_status, cpuVars,
                    skel, ring_buf, tabVars, kernVars, handlerVars, chanVars >>

MutSymbolizerNewFail ==
    /\ pc = "symbolizer_new"
    /\ diag' = "Fail to create a symbolizer"
    /\ pc' = "ring_buffer_new"
    /\ UNCHANGED << cfgVars, err, errno, failed, exit_status, cpuVars, objVars,
                    tabVars, kernVars, handlerVars, chanVars >>

SymbolizerNewFail ==
    /\ pc = "symbolizer_new"
    /\ GotoCleanup("symbolizer", -1, "Fail to create a symbolizer")
    /\ UNCHANGED << cfgVars, errno, exit_status, cpuVars, objVars, tabVars,
                    kernVars, handlerVars, chanVars >>

\* struct perf_event_attr as lines 223-228 fill it in
PerfAttr(sw, f) ==
    [ type        |-> IF sw # 0 THEN "PERF_TYPE_SOFTWARE" ELSE "PERF_TYPE_HARDWARE",
      config      |-> IF sw # 0 THEN "PERF_COUNT_SW_CPU_CLOCK"
                                ELSE "PERF_COUNT_HW_CPU_CYCLES",
      sample_freq |-> f,
      freq        |-> 1 ]

NoAttr == [ type |-> "unset", config |-> "unset", sample_freq |-> 0, freq |-> 0 ]

\* lines 210-228: the ring buffer, then pefds[] all -1, links[] all NULL, attr
RingBufferNewOk ==
    /\ pc = "ring_buffer_new"
    /\ ring_buf' = "alive"
    /\ pefds' = [ i \in 1..num_cpus |-> -1 ]
    /\ links' = [ i \in 1..num_cpus |-> 0 ]
    /\ attr' = PerfAttr(sw_event, freq)
    /\ cpu' = 0
    /\ pc' = "perf_loop"
    /\ UNCHANGED << cfgVars, err, errno, diag, failed, exit_status, cpuVars,
                    skel, symbolizer, kernVars, handlerVars, chanVars >>

\* lines 211-214: no message of its own
RingBufferNewFail ==
    /\ pc = "ring_buffer_new"
    /\ GotoCleanup("ring_buf", -1, diag)
    /\ UNCHANGED << cfgVars, errno, exit_status, cpuVars, objVars, tabVars,
                    kernVars, handlerVars, chanVars >>

\* line 232: skip offline/not present CPUs
SkipCpu(c) == IF c >= num_online_cpus THEN TRUE ELSE ~online_mask[c + 1]

\* lines 230-233: continue
LoopSkip ==
    /\ pc = "perf_loop"
    /\ cpu < num_cpus
    /\ SkipCpu(cpu)
    /\ cpu' = cpu + 1
    /\ UNCHANGED << pc, cfgVars, err, errno, diag, failed, exit_status, cpuVars,
                    objVars, pefds, links, attr, kernVars, handlerVars, chanVars >>

MutPerfDiag(sw, e) ==
    IF e = ENOENT THEN "Fail to set up performance monitor; try --sw-event"
    ELSE "Fail to set up performance monitor"

\* lines 238-244: the message after a failed perf_event_open
PerfDiag(sw, e) ==
    IF sw = 0 /\ e = ENOENT
    THEN "Fail to set up performance monitor; try --sw-event"
    ELSE "Fail to set up performance monitor"

MutPerfEventOpenFail ==
    /\ pc = "perf_loop"
    /\ cpu < num_cpus
    /\ ~SkipCpu(cpu)
    /\ \E e \in PerfErrnos :
          /\ errno' = e
          /\ err' = -1
          /\ failed' = "perf_event_open"
          /\ diag' = PerfDiag(sw_event, e)
    /\ cpu' = cpu + 1
    /\ UNCHANGED << pc, cfgVars, exit_status, cpuVars, objVars, pefds, links,
                    attr, kernVars, handlerVars, chanVars >>

\* lines 236-247: perf_event_open fails on this CPU
PerfEventOpenFail ==
    /\ pc = "perf_loop"
    /\ cpu < num_cpus
    /\ ~SkipCpu(cpu)
    /\ \E e \in PerfErrnos :
          /\ errno' = e
          /\ GotoCleanup("perf_event_open", -1, PerfDiag(sw_event, e))
    /\ UNCHANGED << cfgVars, exit_status, cpuVars, objVars, tabVars, kernVars,
                    handlerVars, chanVars >>

MutAttachFail ==
    /\ pc = "perf_loop"
    /\ cpu < num_cpus
    /\ ~SkipCpu(cpu)
    /\ counters' = counters \cup { [ fd |-> next_fd, cpu |-> cpu, attr |-> attr ] }
    /\ next_fd' = next_fd + 1
    /\ GotoCleanup("attach", -1, diag)
    /\ UNCHANGED << cfgVars, errno, exit_status, cpuVars, objVars, pefds, links,
                    attr, cpu, attachments, handlerVars, chanVars >>

\* lines 236-255: the counter is opened and stored, the attachment fails
AttachFail ==
    /\ pc = "perf_loop"
    /\ cpu < num_cpus
    /\ ~SkipCpu(cpu)
    /\ counters' = counters \cup { [ fd |-> next_fd, cpu |-> cpu, attr |-> attr ] }
    /\ next_fd' = next_fd + 1
    /\ pefds' = [ pefds EXCEPT ![cpu + 1] = next_fd ]
    /\ GotoCleanup("attach", -1, diag)
    /\ UNCHANGED << cfgVars, errno, exit_status, cpuVars, objVars, links, attr,
                    cpu, attachments, handlerVars, chanVars >>

\* lines 236-256: the counter is opened and stored, the program attached
OpenAndAttach ==
    /\ pc = "perf_loop"
    /\ cpu < num_cpus
    /\ ~SkipCpu(cpu)
    /\ counters' = counters \cup { [ fd |-> next_fd, cpu |-> cpu, attr |-> attr ] }
    /\ attachments' = attachments \cup
                          { [ id |-> next_fd + 1, fd |-> next_fd, cpu |-> cpu ] }
    /\ next_fd' = next_fd + 2
    /\ pefds' = [ pefds EXCEPT ![cpu + 1] = next_fd ]
    /\ links' = [ links EXCEPT ![cpu + 1] = next_fd + 1 ]
    /\ cpu' = cpu + 1
    /\ UNCHANGED << pc, cfgVars, err, errno, diag, failed, exit_status, cpuVars,
                    objVars, attr, handlerVars, chanVars >>

\* line 230: cpu < num_cpus is false, the consumer loop is entered
LoopExit ==
    /\ pc = "perf_loop"
    /\ cpu >= num_cpus
    /\ pc' = "poll"
    /\ UNCHANGED << cfgVars, err, errno, diag, failed, exit_status, cpuVars,
                    objVars, tabVars, kernVars, handlerVars, chanVars >>

(* ------------------------- cleanup (262-279) -------------------------- *)
MutCleanupLinks ==
    /\ pc = "cleanup_links"
    /\ counters' =
          IF pefds = NoSeq THEN counters
          ELSE { k \in counters :
                    ~\E i \in 0..(num_cpus - 1) :
                        pefds[i + 1] >= 0 /\ pefds[i + 1] = k.fd }
    /\ cpu' = IF links = NoSeq THEN cpu ELSE num_cpus
    /\ pc' = "cleanup_pefds"
    /\ UNCHANGED << cfgVars, err, errno, diag, failed, exit_status, cpuVars,
                    objVars, pefds, links, attr, attachments, next_fd,
                    handlerVars, chanVars >>

\* lines 263-267: bpf_link__destroy on every entry (a NULL link is a no-op)
CleanupLinks ==
    /\ pc = "cleanup_links"
    /\ attachments' =
          IF links = NoSeq THEN attachments
          ELSE { a \in attachments :
                    ~\E c \in 0..(num_cpus - 1) : links[c + 1] = a.id }
    /\ cpu' = IF links = NoSeq THEN cpu ELSE num_cpus
    /\ pc' = "cleanup_pefds"
    /\ UNCHANGED << cfgVars, err, errno, diag, failed, exit_status, cpuVars,
                    objVars, pefds, links, attr, counters, next_fd, handlerVars, chanVars >>

\* lines 268-274: close every pefds[i] >= 0
CleanupPefds ==
    /\ pc = "cleanup_pefds"
    /\ counters' =
          IF pefds = NoSeq THEN counters
          ELSE { k \in counters :
                    ~\E i \in 0..(num_cpus - 1) :
                        pefds[i + 1] >= 0 /\ pefds[i + 1] = k.fd }
    /\ pc' = "cleanup_ring_buf"
    /\ UNCHANGED << cfgVars, err, errno, diag, failed, exit_status, cpuVars,
                    objVars, tabVars, attachments, next_fd, handlerVars, chanVars >>

\* line 275: ring_buffer__free
CleanupRingBuf ==
    /\ pc = "cleanup_ring_buf"
    /\ ring_buf' = IF ring_buf = "alive" THEN "freed" ELSE ring_buf
    /\ pc' = "cleanup_skel"
    /\ UNCHANGED << cfgVars, err, errno, diag, failed, exit_status, cpuVars,
                    skel, symbolizer, tabVars, kernVars, handlerVars, chanVars >>

\* line 276: profile_bpf__destroy
CleanupSkel ==
    /\ pc = "cleanup_skel"
    /\ skel' = IF skel = "loaded" THEN "destroyed" ELSE skel
    /\ pc' = "cleanup_symbolizer"
    /\ UNCHANGED << cfgVars, err, errno, diag, failed, exit_status, cpuVars,
                    symbolizer, ring_buf, tabVars, kernVars, handlerVars, chanVars >>

\* line 277: blaze_symbolizer_free
CleanupSymbolizer ==
    /\ pc = "cleanup_symbolizer"
    /\ symbolizer' = IF symbolizer = "alive" THEN "freed" ELSE symbolizer
    /\ pc' = "return"
    /\ UNCHANGED << cfgVars, err, errno, diag, failed, exit_status, cpuVars,
                    skel, ring_buf, tabVars, kernVars, handlerVars, chanVars >>

\* the status the parent sees for "return v" from main
ExitStatus(v) == v % ExitMod

\* lines 278-279: free(online_mask); return -err;
Return ==
    /\ pc = "return"
    /\ exit_status' = ExitStatus(0 - err)
    /\ pc' = "done"
    /\ UNCHANGED << cfgVars, err, errno, diag, failed, cpuVars, objVars,
                    tabVars, kernVars, handlerVars, chanVars >>

(* ----------------------- Symbolizer (blazesym) ------------------------ *)
NoInfo == [ dir |-> NULL, file |-> NULL, line |-> 0 ]

\* a blaze_sym whose name is NULL: the address could not be resolved
NoSym == [ name |-> NULL, addr |-> 0, offset |-> 0, code_info |-> NoInfo,
           inlined |-> << >> ]

\* the raw addresses that occur in stacks
Addrs == 0..4

\* What the debug information of the profiled system says about each address:
\* 0 lies in no mapping and below every symbol, 2 is in a stripped image,
\* 1, 3 and 4 resolve with zero, two and one inlined calls and with a
\* directory and file, a file only, and no source location.
SymOf(a) ==
    CASE a = 1 -> [ name |-> "f1", addr |-> 1, offset |-> 0,
                    code_info |-> [ dir |-> "d1", file |-> "a.c", line |-> 10 ],
                    inlined |-> << >> ]
      [] a = 3 -> [ name |-> "f3", addr |-> 2, offset |-> 1,
                    code_info |-> [ dir |-> NULL, file |-> "c.c", line |-> 30 ],
                    inlined |-> << [ name |-> "g1",
                                     code_info |-> [ dir |-> "d3", file |-> "i.h",
                                                     line |-> 31 ] ],
                                   [ name |-> "g2", code_info |-> NoInfo ] >> ]
      [] a = 4 -> [ name |-> "f4", addr |-> 4, offset |-> 0,
                    code_info |-> NoInfo,
                    inlined |-> << [ name |-> "g3",
                                     code_info |-> [ dir |-> NULL, file |-> "j.h",
                                                     line |-> 41 ] ] >> ]
      [] OTHER -> NoSym

\* blaze_symbolize_*_abs_addrs returned NULL
NullSyms == [ null |-> TRUE, cnt |-> 0, syms |-> << >> ]

\* a blaze_syms holding the results of the first c addresses of stack
Syms(stack, c) ==
    [ null |-> FALSE, cnt |-> c, syms |-> [ i \in 1..c |-> SymOf(stack[i]) ] ]

\* what a Symbolizer call on `stack` returns: NULL when the whole call fails,
\* else a blaze_syms with one entry per address
Symbolize(stack) == { NullSyms, Syms(stack, Len(stack)) }

\* the same, and a blaze_syms with fewer entries than addresses, which the
\* test syms->cnt <= i of line 92 allows for
SymbolizeAny(stack) ==
    Symbolize(stack) \cup { Syms(stack, c) : c \in 0..Len(stack) }

(* ------------------------- Reporter (38-107) -------------------------- *)
\* one line of standard output
Line(kind, input, name, addr, offset, loc) ==
    [ kind |-> kind, input |-> input, name |-> name, addr |-> addr,
      offset |-> offset, loc |-> loc ]

TextLine(kind) == Line(kind, 0, NULL, 0, 0, NoInfo)

\* lines 43-49 and 52-58: " dir/file:line", " file:line" or nothing
Loc(code_info) ==
    IF code_info.dir # NULL /\ code_info.file # NULL THEN code_info
    ELSE IF code_info.file # NULL
         THEN [ dir |-> NULL, file |-> code_info.file, line |-> code_info.line ]
         ELSE NoInfo

\* lines 38-60
print_frame(name, input_addr, addr, offset, code_info) ==
    IF input_addr # 0
    THEN Line("frame", input_addr, name, addr, offset, Loc(code_info))
    ELSE Line("inlined", 0, name, 0, 0, Loc(code_info))

MutInlinedLines(sym) ==
    [ j \in 1..Len(sym.inlined) |->
        print_frame(sym.inlined[Len(sym.inlined) + 1 - j].name, 0, 0, 0,
                    sym.inlined[Len(sym.inlined) + 1 - j].code_info) ]

\* lines 100-103: the inlined functions of sym, in the order of sym.inlined
InlinedLines(sym) ==
    [ j \in 1..Len(sym.inlined) |->
        print_frame(sym.inlined[j].name, 0, 0, 0, sym.inlined[j].code_info) ]

MutFrameLines(stack, syms, i) ==
    IF syms.null \/ syms.cnt <= i - 1 \/ syms.syms[i].name = NULL
    THEN << >>
    ELSE << print_frame(syms.syms[i].name, stack[i], syms.syms[i].addr,
                        syms.syms[i].offset, syms.syms[i].code_info) >>
         \o InlinedLines(syms.syms[i])

\* lines 92-103: what iteration i of the loop prints (i counts from 1 here)
FrameLines(stack, syms, i) ==
    IF syms.null \/ syms.cnt <= i - 1 \/ syms.syms[i].name = NULL
    THEN << Line("nosym", stack[i], NULL, 0, 0, NoInfo) >>
    ELSE << print_frame(syms.syms[i].name, stack[i], syms.syms[i].addr,
                        syms.syms[i].offset, syms.syms[i].code_info) >>
         \o InlinedLines(syms.syms[i])

\* lines 91-104: iterations i..stack_sz of the loop
RECURSIVE StackLines(_, _, _, _)
StackLines(stack, stack_sz, syms, i) ==
    IF i > stack_sz THEN << >>
    ELSE FrameLines(stack, syms, i) \o StackLines(stack, stack_sz, syms, i + 1)

SymCall(op, pid, n) == [ op |-> op, pid |-> pid, n |-> n ]

\* lines 91-104: iteration i of the loop reads the result through syms
SymUses(stack_sz) == [ i \in 1..stack_sz |-> SymCall("use", 0, i) ]

MutLeak_show_stack_trace(stack, stack_sz, pid, syms) ==
    LET sym_call == IF pid # 0 THEN SymCall("process", pid, stack_sz)
                    ELSE SymCall("kernel", 0, stack_sz)
    IN  IF syms.null
        THEN [ out |-> << TextLine("failed") >>, log |-> << sym_call >> ]
        ELSE [ out |-> StackLines(stack, stack_sz, syms, 1),
               log |-> << sym_call >> \o SymUses(stack_sz) ]

Mut_show_stack_trace(stack, stack_sz, pid, syms) ==
    LET sym_call == IF pid # 0 THEN SymCall("process", pid, stack_sz)
                    ELSE SymCall("kernel", 0, stack_sz)
    IN  IF syms.null
        THEN [ out |-> << TextLine("failed") >> \o StackLines(stack, stack_sz, syms, 1),
               log |-> << sym_call >> ]
        ELSE [ out |-> StackLines(stack, stack_sz, syms, 1),
               log |-> << sym_call >> \o SymUses(stack_sz)
                         \o << SymCall("free", 0, 0) >> ]

\* lines 62-107.  syms is what the Symbolizer returned for this call.  The
\* result is the lines printed and, in program order, the Symbolizer call,
\* the reads of its result and the release of the result.
show_stack_trace(stack, stack_sz, pid, syms) ==
    LET sym_call == IF pid # 0 THEN SymCall("process", pid, stack_sz)
                    ELSE SymCall("kernel", 0, stack_sz)
    IN  IF syms.null
        THEN [ out |-> << TextLine("failed") >>, log |-> << sym_call >> ]
        ELSE [ out |-> StackLines(stack, stack_sz, syms, 1),
               log |-> << sym_call >> \o SymUses(stack_sz)
                         \o << SymCall("free", 0, 0) >> ]

(* ---------------------- event_handler (110-135) ----------------------- *)
MutIsEmptyRecord(event) == event.kstack_sz = 0 /\ event.ustack_sz = 0

\* line 114: neither stack holds a frame
IsEmptyRecord(event) == event.kstack_sz <= 0 /\ event.ustack_sz <= 0

MutStop_event_handler(event, ksyms, usyms) ==
    IF IsEmptyRecord(event)
    THEN [ ret |-> -1, out |-> << >>, log |-> << >> ]
    ELSE
      LET comm == << Line("comm", event.pid, event.comm, event.cpu_id, 0, NoInfo) >>
          k == IF event.kstack_sz > 0
               THEN show_stack_trace(event.kstack, event.kstack_sz \div SizeofU64,
                                     0, ksyms)
               ELSE [ out |-> << >>, log |-> << >> ]
          khdr == IF event.kstack_sz > 0 THEN << TextLine("Kernel:") >>
                  ELSE << TextLine("No Kernel Stack") >>
          u == IF event.ustack_sz > 0
               THEN show_stack_trace(event.ustack, event.ustack_sz \div SizeofU64,
                                     event.pid, usyms)
               ELSE [ out |-> << >>, log |-> << >> ]
          uhdr == IF event.ustack_sz > 0 THEN << TextLine("Userspace:") >>
                  ELSE << TextLine("No Userspace Stack") >>
      IN  [ ret |-> 0,
            out |-> comm \o khdr \o k.out \o uhdr \o u.out \o << TextLine("") >>,
            log |-> k.log \o u.log ]

Mut_event_handler(event, ksyms, usyms) ==
    IF IsEmptyRecord(event)
    THEN [ ret |-> 1, out |-> << >>, log |-> << >> ]
    ELSE
      LET comm == << Line("comm", event.pid, event.comm, event.cpu_id, 0, NoInfo) >>
          k == IF event.kstack_sz >= 0
               THEN show_stack_trace(event.kstack, event.kstack_sz \div SizeofU64,
                                     0, ksyms)
               ELSE [ out |-> << >>, log |-> << >> ]
          khdr == IF event.kstack_sz > 0 THEN << TextLine("Kernel:") >>
                  ELSE << TextLine("No Kernel Stack") >>
          u == IF event.ustack_sz >= 0
               THEN show_stack_trace(event.ustack, event.ustack_sz \div SizeofU64,
                                     event.pid, usyms)
               ELSE [ out |-> << >>, log |-> << >> ]
          uhdr == IF event.ustack_sz > 0 THEN << TextLine("Userspace:") >>
                  ELSE << TextLine("No Userspace Stack") >>
      IN  [ ret |-> 0,
            out |-> comm \o khdr \o k.out \o uhdr \o u.out \o << TextLine("") >>,
            log |-> k.log \o u.log ]

\* lines 110-135.  ksyms / usyms are what the Symbolizer returns for the
\* kernel and for the user stack, should the handler ask.
event_handler(event, ksyms, usyms) ==
    IF IsEmptyRecord(event)
    THEN [ ret |-> 1, out |-> << >>, log |-> << >> ]
    ELSE
      LET comm == << Line("comm", event.pid, event.comm, event.cpu_id, 0, NoInfo) >>
          k == IF event.kstack_sz > 0
               THEN show_stack_trace(event.kstack, event.kstack_sz \div SizeofU64,
                                     0, ksyms)
               ELSE [ out |-> << >>, log |-> << >> ]
          khdr == IF event.kstack_sz > 0 THEN << TextLine("Kernel:") >>
                  ELSE << TextLine("No Kernel Stack") >>
          u == IF event.ustack_sz > 0
               THEN show_stack_trace(event.ustack, event.ustack_sz \div SizeofU64,
                                     event.pid, usyms)
               ELSE [ out |-> << >>, log |-> << >> ]
          uhdr == IF event.ustack_sz > 0 THEN << TextLine("Userspace:") >>
                  ELSE << TextLine("No Userspace Stack") >>
      IN  [ ret |-> 0,
            out |-> comm \o khdr \o k.out \o uhdr \o u.out \o << TextLine("") >>,
            log |-> k.log \o u.log ]

(* ---------------------- consumer loop (258-260) ----------------------- *)
\* the pids of sampled tasks: the idle task (0) and an ordinary process
Pids == { 0, 7 }

\* kstack_sz / ustack_sz as the capture program stores them: the byte count
\* bpf_get_stack returned, or its negative error
StackSizes == { -14, 0, SizeofU64 * MaxStack }

\* the stack of n frames delivered in the consumer loop: the addresses
\* 1, 2, 3, 4, 0, 1, ...
SampleStacks(n) == { [ i \in 1..n |-> i % 5 ] }

StacksOfSize(sz) == IF sz <= 0 THEN { << >> } ELSE SampleStacks(sz \div SizeofU64)

\* the Symbolizer's answer for a stack of sz bytes; a stack that is not shown
\* is not submitted, which leaves no answer
AnswersFor(sz, stack) == IF sz <= 0 THEN { NullSyms } ELSE Symbolize(stack)

NoRec == [ pid |-> 0, cpu_id |-> 0, comm |-> NULL, kstack_sz |-> 0,
           ustack_sz |-> 0, kstack |-> << >>, ustack |-> << >> ]

\* line 259, ring_buffer__poll hands one record to event_handler; a negative
\* return of the callback makes ring_buffer__poll return it, which ends the loop
PollRecord ==
    /\ pc = "poll"
    /\ \E pid \in Pids, ksz \in StackSizes, usz \in StackSizes :
         \E ks \in StacksOfSize(ksz), us \in StacksOfSize(usz) :
           \E ksyms \in AnswersFor(ksz, ks), usyms \in AnswersFor(usz, us) :
             LET event == [ pid |-> pid, cpu_id |-> 0, comm |-> "comm",
                            kstack_sz |-> ksz, ustack_sz |-> usz,
                            kstack |-> ks, ustack |-> us ]
                 r == event_handler(event, ksyms, usyms)
             IN  /\ rec' = event
                 /\ answers' = [ k |-> ksyms, u |-> usyms ]
                 /\ out' = r.out
                 /\ symlog' = r.log
                 /\ ret' = r.ret
                 /\ handled' = TRUE
                 /\ loop_end' = IF r.ret < 0 THEN "handler" ELSE loop_end
                 /\ pc' = IF r.ret < 0 THEN "cleanup_links" ELSE "poll"
    /\ UNCHANGED << cfgVars, err, errno, diag, failed, exit_status, cpuVars,
                    objVars, tabVars, kernVars, call, chanVars >>

\* line 259, ring_buffer__poll itself fails: its return value is only compared
\* with 0, the loop ends and control falls into cleanup
PollError ==
    /\ pc = "poll"
    /\ loop_end' = "poll_error"
    /\ pc' = "cleanup_links"
    /\ UNCHANGED << cfgVars, err, errno, diag, failed, exit_status, cpuVars,
                    objVars, tabVars, kernVars, rec, answers, out, symlog, ret,
                    handled, call, chanVars >>

(* ------------------- the shared channel (210, 259) -------------------- *)
\* the ring buffer map holds at most this many records
RingCap == 2

\* the capture program runs at most this many times
MaxProduced == 3

\* a sample on CPU c, whose counter carries the capture program: the record
\* is appended to the one ring buffer, or dropped when the buffer is full
Produce(c) ==
    /\ pc \in { "perf_loop", "poll" }
    /\ ring_buf = "alive"
    /\ \E a \in attachments : a.cpu = c
    /\ stamp < MaxProduced
    /\ stamp' = stamp + 1
    /\ ring' = IF Len(ring) < RingCap
               THEN Append(ring, [ cpu |-> c, stamp |-> stamp + 1 ])
               ELSE ring
    /\ UNCHANGED << pc, cfgVars, err, errno, diag, failed, exit_status, cpuVars,
                    objVars, tabVars, kernVars, handlerVars, last >>

\* what a record of the channel may hold: no stack at all (empty record), a
\* kernel stack the Symbolizer fails on, and two stacks it answers for, with
\* addresses it finds no symbol for
ChanRecords ==
    LET full == SizeofU64 * MaxStack
        st == CHOOSE x \in SampleStacks(MaxStack) : TRUE
    IN  { [ ksz |-> 0, usz |-> -14, ks |-> << >>, us |-> << >>,
            ksyms |-> NullSyms, usyms |-> NullSyms ],
          [ ksz |-> full, usz |-> -14, ks |-> st, us |-> << >>,
            ksyms |-> NullSyms, usyms |-> NullSyms ],
          [ ksz |-> full, usz |-> full, ks |-> st, us |-> st,
            ksyms |-> Syms(st, Len(st)), usyms |-> Syms(st, Len(st)) ] }

MutChanPoll ==
    /\ pc = "poll"
    /\ ring # << >>
    /\ \E c \in ChanRecords :
         LET event == [ pid |-> 7, cpu_id |-> ring[Len(ring)].cpu, comm |-> "comm",
                        kstack_sz |-> c.ksz, ustack_sz |-> c.usz,
                        kstack |-> c.ks, ustack |-> c.us ]
             r == event_handler(event, c.ksyms, c.usyms)
         IN  /\ rec' = event
             /\ answers' = [ k |-> c.ksyms, u |-> c.usyms ]
             /\ out' = r.out
             /\ symlog' = r.log
             /\ ret' = r.ret
             /\ handled' = TRUE
             /\ loop_end' = IF r.ret < 0 THEN "handler" ELSE loop_end
             /\ pc' = IF r.ret < 0 THEN "cleanup_links" ELSE "poll"
    /\ last' = ring[Len(ring)].stamp
    /\ ring' = SubSeq(ring, 1, Len(ring) - 1)
    /\ UNCHANGED << cfgVars, err, errno, diag, failed, exit_status, cpuVars,
                    objVars, tabVars, kernVars, call, stamp >>

\* line 259 with the channel spelled out: ring_buffer__poll takes the oldest
\* record of the ring buffer and calls event_handler on it; a negative return
\* of the callback ends the loop
ChanPoll ==
    /\ pc = "poll"
    /\ ring # << >>
    /\ \E c \in ChanRecords :
         LET event == [ pid |-> 7, cpu_id |-> Head(ring).cpu, comm |-> "comm",
                        kstack_sz |-> c.ksz, ustack_sz |-> c.usz,
                        kstack |-> c.ks, ustack |-> c.us ]
             r == event_handler(event, c.ksyms, c.usyms)
         IN  /\ rec' = event
             /\ answers' = [ k |-> c.ksyms, u |-> c.usyms ]
             /\ out' = r.out
             /\ symlog' = r.log
             /\ ret' = r.ret
             /\ handled' = TRUE
             /\ loop_end' = IF r.ret < 0 THEN "handler" ELSE loop_end
             /\ pc' = IF r.ret < 0 THEN "cleanup_links" ELSE "poll"
    /\ last' = Head(ring).stamp
    /\ ring' = Tail(ring)
    /\ UNCHANGED << cfgVars, err, errno, diag, failed, exit_status, cpuVars,
                    objVars, tabVars, kernVars, call, stamp >>

(* -------------------------- specification ----------------------------- *)
NoCall == [ stack |-> << >>, stack_sz |-> 0, pid |-> 0, syms |-> NullSyms,
            returned |-> FALSE ]

InitMain ==
    /\ freq = 1
    /\ sw_event = 0
    /\ optarg = NullArg
    /\ err = 0
    /\ errno = 0
    /\ online_mask = NoSeq
    /\ num_online_cpus = 0
    /\ num_cpus = 0
    /\ skel = "null"
    /\ symbolizer = "null"
    /\ ring_buf = "null"
    /\ pefds = NoSeq
    /\ links = NoSeq
    /\ attr = NoAttr
    /\ cpu = 0
    /\ counters = {}
    /\ attachments = {}
    /\ next_fd = 3
    /\ diag = ""
    /\ failed = "none"
    /\ exit_status = -1
    /\ rec = NoRec
    /\ answers = [ k |-> NullSyms, u |-> NullSyms ]
    /\ out = << >>
    /\ symlog = << >>
    /\ ret = 0
    /\ handled = FALSE
    /\ loop_end = "none"
    /\ ring = << >>
    /\ stamp = 0
    /\ last = 0

Init ==
    /\ pc = "getopt"
    /\ InitMain
    /\ call = NoCall

Next ==
    \/ GetoptF
    \/ GetoptS
    \/ GetoptHelp
    \/ GetoptEnd
    \/ ParseCpuMaskOk
    \/ ParseCpuMaskFail
    \/ NumPossibleCpusOk
    \/ NumPossibleCpusFail
    \/ OpenAndLoadOk
    \/ OpenAndLoadFail
    \/ SymbolizerNewOk
    \/ SymbolizerNewFail
    \/ RingBufferNewOk
    \/ RingBufferNewFail
    \/ LoopSkip
    \/ PerfEventOpenFail
    \/ AttachFail
    \/ OpenAndAttach
    \/ LoopExit
    \/ PollRecord
    \/ PollError
    \/ CleanupLinks
    \/ CleanupPefds
    \/ CleanupRingBuf
    \/ CleanupSkel
    \/ CleanupSymbolizer
    \/ Return

Spec == Init /\ [][Next]_vars

(* ---------- show_stack_trace on its own, over all short stacks --------- *)
RECURSIVE SeqsUpTo(_, _)
SeqsUpTo(S, n) ==
    IF n = 0 THEN { << >> }
    ELSE LET shorter == SeqsUpTo(S, n - 1)
         IN  shorter \cup { Append(q, x) : q \in { t \in shorter : Len(t) = n - 1 },
                                           x \in S }

InitShow ==
    /\ pc = "show_stack_trace"
    /\ InitMain
    /\ \E stack \in SeqsUpTo(Addrs, MaxStack), pid \in Pids :
         \E syms \in SymbolizeAny(stack) :
            call = [ stack |-> stack, stack_sz |-> Len(stack), pid |-> pid,
                     syms |-> syms, returned |-> FALSE ]

\* one call of show_stack_trace (62-107) on the chosen stack and result
ShowStackTrace ==
    /\ pc = "show_stack_trace"
    /\ ~call.returned
    /\ LET r == show_stack_trace(call.stack, call.stack_sz, call.pid, call.syms)
       IN  /\ out' = r.out
           /\ symlog' = r.log
    /\ call' = [ call EXCEPT !.returned = TRUE ]
    /\ UNCHANGED << pc, cfgVars, err, errno, diag, failed, exit_status, cpuVars,
                    objVars, tabVars, kernVars, rec, answers, ret, handled,
                    loop_end, chanVars >>

NextShow == ShowStackTrace

SpecShow == InitShow /\ [][NextShow]_vars

\* the run in which set-up succeeds, with the capture program producing into
\* the channel and the consumer loop draining it
NextChan ==
    \/ GetoptEnd
    \/ ParseCpuMaskOk
    \/ NumPossibleCpusOk
    \/ OpenAndLoadOk
    \/ SymbolizerNewOk
    \/ RingBufferNewOk
    \/ LoopSkip
    \/ OpenAndAttach
    \/ LoopExit
    \/ \E c \in 0..(MaxCpus - 1) : Produce(c)
    \/ ChanPoll
    \/ PollError

SpecChan == Init /\ [][NextChan]_vars

\* the consumer loop keeps running: whenever a record is waiting, the blocked
\* ring_buffer__poll returns and hands it to the handler
SpecChanFair == SpecChan /\ WF_vars(ChanPoll)

(* ------------------------------ claims -------------------------------- *)
PerfHint == "Fail to set up performance monitor; try --sw-event"

\* C1: when main has returned, no perf counter and no BPF attachment that was
\* opened is still open, and the ring buffer is no longer alive, whichever way
\* the cleanup label was reached.
AllReleasedAtExit ==
    pc = "done" => /\ counters = {}
                   /\ attachments = {}
                   /\ ring_buf # "alive"

\* a run that opened a counter and failed to attach it, and has returned
AllReleasedAtExitWitness ==
    /\ pc = "done"
    /\ failed = "attach"
    /\ ring_buf = "freed"
    /\ \E i \in DOMAIN pefds : pefds[i] >= 0

IsOnlineCpu(c) == c < num_online_cpus /\ online_mask[c + 1]

\* C2: when the consumer loop is entered, every online CPU has exactly one
\* counter and exactly one attachment and no other CPU has any.
OnePerOnlineCpu ==
    pc = "poll" =>
       /\ \A c \in 0..(num_online_cpus - 1) :
             online_mask[c + 1] =>
                /\ Cardinality({ k \in counters : k.cpu = c }) = 1
                /\ Cardinality({ a \in attachments : a.cpu = c }) = 1
       /\ \A k \in counters : IsOnlineCpu(k.cpu)
       /\ \A a \in attachments : IsOnlineCpu(a.cpu)

\* C3: after a failure at any set-up stage the consumer loop is never entered,
\* no record is handled and the exit status is not 0.
SetupFailureAborts ==
    failed # "none" =>
       /\ pc # "poll"
       /\ ~handled
       /\ loop_end = "none"
       /\ pc = "done" => exit_status > 0

SetupFailureAbortsWitness ==
    /\ pc = "done"
    /\ failed = "ring_buf"
    /\ exit_status = 1

\* C4: when the consumer loop ended because ring_buffer__poll reported an
\* error, the exit status is not 0.
PollErrorExitsNonZero ==
    (pc = "done" /\ loop_end = "poll_error") => exit_status # 0

\* C5: a record whose two frame counts are both zero or negative makes the
\* handler print nothing and call the Symbolizer not at all, and its return
\* value does not end the consumer loop.
EmptyRecordSkipped ==
    (handled /\ rec.kstack_sz <= 0 /\ rec.ustack_sz <= 0) =>
       /\ out = << >>
       /\ symlog = << >>
       /\ ret >= 0
       /\ loop_end # "handler"

\* an empty record with a negative size was handled and the loop is still polling
EmptyRecordSkippedWitness ==
    /\ handled
    /\ rec.kstack_sz < 0
    /\ rec.ustack_sz = 0
    /\ pc = "poll"

Kinds(lines) == [ i \in DOMAIN lines |-> lines[i].kind ]

TopLevel(lines) ==
    SelectSeq(lines, LAMBDA l : l.kind = "frame" \/ l.kind = "nosym")

AddressLines(lines) ==
    SelectSeq(lines, LAMBDA l : l.kind \in { "frame", "nosym", "inlined" })

KernelFailed == rec.kstack_sz > 0 /\ answers.k.null
UserFailed == rec.ustack_sz > 0 /\ answers.u.null
KernelShown == rec.kstack_sz > 0 /\ ~answers.k.null
UserShown == rec.ustack_sz > 0 /\ ~answers.u.null

\* C6: when a Symbolizer call of the record fails as a whole, the failure is
\* printed once in place of that stack's address lines, the other stack and
\* the closing blank line are printed as usual, the handler returns 0 and the
\* consumer loop is not ended by it.
WholeCallFailureNotFatal ==
    (handled /\ (KernelFailed \/ UserFailed)) =>
       /\ ret = 0
       /\ loop_end # "handler"
       /\ out[1].kind = "comm"
       /\ out[Len(out)] = TextLine("")
       /\ KernelFailed =>
             /\ SubSeq(Kinds(out), 2, 3) = << "Kernel:", "failed" >>
             /\ out[4].kind \in { "Userspace:", "No Userspace Stack" }
       /\ UserFailed =>
             SubSeq(Kinds(out), Len(out) - 2, Len(out)) = << "Userspace:", "failed", "" >>
       /\ Len(SelectSeq(out, LAMBDA l : l.kind = "failed"))
             = (IF KernelFailed THEN 1 ELSE 0) + (IF UserFailed THEN 1 ELSE 0)
       /\ Len(TopLevel(out))
             = (IF KernelShown THEN rec.kstack_sz \div SizeofU64 ELSE 0)
               + (IF UserShown THEN rec.ustack_sz \div SizeofU64 ELSE 0)
       /\ (~KernelShown /\ ~UserShown) => AddressLines(out) = << >>

\* the kernel stack failed to symbolize, the user stack was shown, still polling
WholeCallFailureNotFatalWitness ==
    /\ handled
    /\ KernelFailed
    /\ UserShown
    /\ pc = "poll"

Unresolved(i) == call.syms.cnt < i \/ call.syms.syms[i].name = NULL

TopPos(lines, i) ==
    CHOOSE p \in DOMAIN lines :
       /\ lines[p].kind # "inlined"
       /\ Cardinality({ q \in 1..(p - 1) : lines[q].kind # "inlined" }) = i - 1

InlinedOf(i) == IF Unresolved(i) THEN << >> ELSE call.syms.syms[i].inlined

\* C8: the line of a resolved frame with k inlined functions is followed by
\* exactly k inlined-marked lines, in the order the Symbolizer returned them,
\* and then by the next top-level line (or the end); the output starts with a
\* top-level line.
InlinedFollowTheirFrame ==
    (call.returned /\ ~call.syms.null /\ call.stack_sz > 0) =>
       /\ out[1].kind # "inlined"
       /\ \A i \in 1..call.stack_sz :
             LET p == TopPos(out, i)
                 k == Len(InlinedOf(i))
             IN  /\ p + k <= Len(out)
                 /\ \A j \in 1..k :
                       /\ out[p + j].kind = "inlined"
                       /\ out[p + j].name = InlinedOf(i)[j].name
                 /\ p + k + 1 <= Len(out) => out[p + k + 1].kind # "inlined"

\* a frame with two inlined functions, then another frame
InlinedFollowTheirFrameWitness ==
    /\ call.returned
    /\ ~call.syms.null
    /\ call.stack = << 3, 1 >>
    /\ call.syms.cnt = 2
    /\ Len(out) = 4

\* the value of the -f arguments that are decimal numbers
ArgValue(a) ==
    CASE a = << "1", "2" >> -> 12
      [] a = << "0" >> -> 0
      [] a = << "-", "3" >> -> -3

IsNumber(a) == a \in { << "1", "2" >>, << "0" >>, << "-", "3" >> }

\* C9: the frequency is 1 as long as no -f was given, 1 after -f with 0 or a
\* negative number, the number itself after -f with a positive one, and never
\* below 1; every counter is opened in frequency mode with that frequency.
FrequencyClamped ==
    /\ freq = 1
    /\ [][ /\ optarg' = NullArg => freq' = freq
           /\ (optarg' # NullArg /\ IsNumber(optarg')) =>
                 freq' = IF ArgValue(optarg') <= 0 THEN 1 ELSE ArgValue(optarg')
           /\ freq' >= 1
           /\ \A k \in counters' :
                 k.attr.sample_freq = freq' /\ k.attr.freq = 1 ]_vars

\* counters opened with the frequency given on the command line
FrequencyClampedWitness ==
    /\ pc = "poll"
    /\ freq = 12
    /\ counters # {}

\* C10: a perf_event_open failure exits non-zero, and the diagnostic suggests
\* --sw-event exactly when the failure is ENOENT in hardware mode; no other
\* failure prints the suggestion.
SwEventHint ==
    /\ failed = "perf_event_open" =>
          /\ diag = PerfHint <=> (sw_event = 0 /\ errno = ENOENT)
          /\ pc = "done" => exit_status > 0
    /\ diag = PerfHint => failed = "perf_event_open"

SwEventHintWitness ==
    /\ pc = "done"
    /\ failed = "perf_event_open"
    /\ sw_event = 0
    /\ errno = ENOENT
    /\ diag = PerfHint

UnitFailed == failed \in { "perf_event_open", "attach" }

\* C11: once perf_event_open or the attachment failed for a CPU, the set-up
\* loop is left for good: no counter or attachment exists for a later CPU, the
\* failing CPU has its one counter (attachment failed) or none (open failed),
\* nothing is opened any more, and at exit everything opened before is gone.
NoPartialRetry ==
    /\ [](UnitFailed =>
            /\ pc \notin { "perf_loop", "poll" }
            /\ pc = "cleanup_links" =>
                  /\ \A k \in counters : k.cpu <= cpu
                  /\ \A a \in attachments : a.cpu < cpu
                  /\ Cardinality({ k \in counters : k.cpu = cpu })
                        = (IF failed = "attach" THEN 1 ELSE 0)
            /\ pc = "done" => (counters = {} /\ attachments = {}))
    /\ [][UnitFailed =>
            /\ counters' \subseteq counters
            /\ attachments' \subseteq attachments
            /\ next_fd' = next_fd
            /\ failed' = failed]_vars

\* the attachment failed on a later CPU: an earlier unit is up, the failing
\* unit has its counter
NoPartialRetryWitness ==
    /\ failed = "attach"
    /\ pc = "cleanup_links"
    /\ cpu >= 1
    /\ Cardinality(counters) = 2
    /\ Cardinality(attachments) = 1

IsSymCall(e) == e.op \in { "kernel", "process" }

\* the positions of the Symbolizer calls in a log
CallIdx(log) == { i \in 1..Len(log) : IsSymCall(log[i]) }

\* what follows the call at position j up to the next call or the end
SegEnd(log, j) ==
    IF \E i \in CallIdx(log) : i > j
    THEN (CHOOSE i \in CallIdx(log) : i > j /\ \A h \in CallIdx(log) : h > j => i <= h) - 1
    ELSE Len(log)

Segment(log, j) == SubSeq(log, j + 1, SegEnd(log, j))

\* whether each call the handler makes for rec got a result, in call order
Outcomes ==
    (IF rec.kstack_sz > 0 THEN << ~answers.k.null >> ELSE << >>)
    \o (IF rec.ustack_sz > 0 THEN << ~answers.u.null >> ELSE << >>)

\* C14: in the log of a handled record every call that returned a result is
\* followed by the reads of that result and then by exactly one release,
\* before the next call or the return; a call that returned NULL is followed
\* by nothing; so when the loop waits again every result has been released.
ResultReleasedOnce ==
    (pc = "poll" /\ handled) =>
        /\ symlog = << >> \/ IsSymCall(symlog[1])
        /\ Cardinality(CallIdx(symlog)) = Len(Outcomes)
        /\ \A j \in CallIdx(symlog) :
              LET nth == Cardinality({ i \in CallIdx(symlog) : i <= j })
              IN  Segment(symlog, j) =
                     IF Outcomes[nth]
                     THEN SymUses(symlog[j].n) \o << SymCall("free", 0, 0) >>
                     ELSE << >>

\* a record whose kernel stack could not be symbolized and whose user stack
\* could: one call without release, one call with its release
ResultReleasedOnceWitness ==
    /\ pc = "poll"
    /\ handled
    /\ rec.kstack_sz > 0
    /\ rec.ustack_sz > 0
    /\ answers.k.null
    /\ ~answers.u.null
    /\ Cardinality({ i \in 1..Len(symlog) : symlog[i].op = "free" }) = 1

\* the Symbolizer calls of the handled record, in call order
SymCalls == SelectSeq(symlog, IsSymCall)

NonEmptyHandled == pc = "poll" /\ handled /\ ~IsEmptyRecord(rec)

\* C13, as stated: every non-empty record causes two Symbolizer calls, one
\* for the kernel and one for the process address space.
TwoCallsPerRecord ==
    NonEmptyHandled =>
        /\ Len(SymCalls) = 2
        /\ { SymCalls[1].op, SymCalls[2].op } = { "kernel", "process" }

\* C13, amended: the Symbolizer is called once for each stack of the record
\* that holds frames, the kernel stack first with the kernel descriptor, the
\* user stack with the process descriptor of the record's pid (the kernel
\* descriptor when that pid is 0); a stack without frames causes no call.
OneCallPerPresentStack ==
    (pc = "poll" /\ handled) =>
        /\ Len(SymCalls) = (IF rec.kstack_sz > 0 THEN 1 ELSE 0)
                           + (IF rec.ustack_sz > 0 THEN 1 ELSE 0)
        /\ rec.kstack_sz > 0 =>
              /\ SymCalls[1].op = "kernel"
              /\ SymCalls[1].n = rec.kstack_sz \div SizeofU64
        /\ rec.ustack_sz > 0 =>
              /\ SymCalls[Len(SymCalls)].n = rec.ustack_sz \div SizeofU64
              /\ SymCalls[Len(SymCalls)].op =
                    (IF rec.pid # 0 THEN "process" ELSE "kernel")
              /\ SymCalls[Len(SymCalls)].pid = rec.pid

\* a record with a kernel stack and a failed user-stack capture: one call
OneCallPerPresentStackWitness ==
    /\ NonEmptyHandled
    /\ rec.kstack_sz > 0
    /\ rec.ustack_sz < 0
    /\ Len(SymCalls) = 1

\* C15, as stated: whatever the pid, the user stack of a record is resolved
\* with the process descriptor of that pid, the kernel stack with the kernel
\* descriptor.
UserFramesUseProcess ==
    NonEmptyHandled =>
        /\ rec.kstack_sz > 0 => SymCalls[1].op = "kernel"
        /\ rec.ustack_sz > 0 =>
              /\ SymCalls[Len(SymCalls)].op = "process"
              /\ SymCalls[Len(SymCalls)].pid = rec.pid

\* what a run of the handler writes
handlerOut == << rec, answers, out, symlog, ret, handled >>

\* C16: the handler, and with it every Symbolizer call, runs only inside the
\* wait of the consumer loop, and the loop is only ever reached with a
\* Symbolizer that was created and is not yet destroyed; a run whose set-up
\* failed never runs the handler.
SymbolizerAliveWhenUsed ==
    /\ [](pc = "poll" => symbolizer = "alive")
    /\ [](failed # "none" => (~handled /\ symlog = << >>))
    /\ [][handlerOut' # handlerOut =>
            /\ pc = "poll"
            /\ symbolizer = "alive"
            /\ symbolizer' = "alive"]_vars

\* the Symbolizer was used for a record and destroyed afterwards
SymbolizerAliveWhenUsedWitness ==
    /\ symbolizer = "freed"
    /\ handled
    /\ Cardinality(CallIdx(symlog)) = 2

CleanupPcs == { "cleanup_links", "cleanup_pefds", "cleanup_ring_buf",
                "cleanup_skel", "cleanup_symbolizer", "return", "done" }

\* a descriptor stored in pefds whose counter is no longer open
SomeCounterClosed ==
    \E i \in 1..Len(pefds) :
        pefds[i] >= 0 /\ ~\E k \in counters : k.fd = pefds[i]

\* C17: in main's teardown no counter is closed while an attachment still
\* exists, the ring buffer is freed only once no counter and no attachment is
\* left, the skeleton and the Symbolizer are destroyed only after the ring
\* buffer is gone, and from the cleanup label on no record is handled.
TeardownOrder ==
    /\ [](SomeCounterClosed => attachments = {})
    /\ [](ring_buf = "freed" => (counters = {} /\ attachments = {}))
    /\ [](skel = "destroyed" => ring_buf # "alive")
    /\ [](symbolizer = "freed" => ring_buf # "alive")
    /\ [][(pc \in CleanupPcs) =>
            /\ handlerOut' = handlerOut
            /\ pc' \in CleanupPcs]_vars

\* a complete teardown after the loop ran with two attached units
TeardownOrderWitness ==
    /\ pc = "done"
    /\ handled
    /\ failed = "none"
    /\ Cardinality({ i \in 1..Len(pefds) : pefds[i] >= 0 }) = 2
    /\ ring_buf = "freed"
    /\ skel = "destroyed"
    /\ symbolizer = "freed"

\* C12: the records wait in the one channel in the order of their production,
\* whatever CPU produced them, and the handler is always given the oldest
\* one: the production stamps of the handled records only grow.
FifoDelivery ==
    /\ [](\A i \in 1..Len(ring) :
             /\ ring[i].stamp > last
             /\ i < Len(ring) => ring[i].stamp < ring[i + 1].stamp)
    /\ [][last' # last =>
            /\ ring # << >>
            /\ last' = Head(ring).stamp
            /\ last' > last
            /\ rec'.cpu_id = Head(ring).cpu
            /\ ring' = Tail(ring)]_vars

\* the second record, produced on CPU 1, was handled while a later record of
\* CPU 0 waits behind it
FifoDeliveryWitness ==
    /\ pc = "poll"
    /\ last = 2
    /\ rec.cpu_id = 1
    /\ ring # << >>
    /\ Head(ring).cpu = 0

\* C18: once set-up is done and the consumer loop waits, the records
\* accepted into the channel (before or after that moment) are all handled,
\* unless ring_buffer__poll reports an error first: the channel is drained, and
\* a record leaves it only by being handed to the handler.  The handler never
\* ends the loop, whatever the record holds; the loop is left only on such an
\* error.
DrainsEveryRecord ==
    /\ (pc = "poll" /\ ring # << >>) ~> (ring = << >> \/ loop_end = "poll_error")
    /\ [][ring' # ring /\ Len(ring') <= Len(ring) =>
            /\ ring' = Tail(ring)
            /\ last' = Head(ring).stamp
            /\ rec'.cpu_id = Head(ring).cpu
            /\ handled']_vars
    /\ [](loop_end # "handler")
    /\ [][(pc = "poll" /\ pc' # "poll") => loop_end' = "poll_error"]_vars

\* the loop goes on after an empty record that had waited in the channel,
\* and the channel is drained
DrainsEveryRecordWitness ==
    /\ pc = "poll"
    /\ loop_end = "none"
    /\ stamp >= 2
    /\ last = stamp
    /\ ring = << >>
    /\ ret = 1

====
